---- MODULE Spec2Model ----
(***************************************************************************)
(* State-machine model of the todo backend: the token service              *)
(* (app/auth/jwt.py), the authentication gate (app/auth/dependencies.py),  *)
(* the login and todo handlers (app/api/routes.py), the health and root    *)
(* endpoints (app/main.py) and the event publisher                         *)
(* (app/services/kafka_service.py).                                        *)
(*                                                                         *)
(* One action is one HTTP request handled from the gate to the response.   *)
(* The clock counts whole minutes; timestamps of todos and the exp claim   *)
(* of tokens are readings of that clock.                                   *)
(***************************************************************************)
EXTENDS Integers, Sequences, FiniteSets, TLC

VARIABLES
    todos_db,          \* routes.todos_db: the dict, as its entries in insertion order
    todo_id_counter,   \* routes.todo_id_counter
    producer,          \* kafka_service.producer is not None
    sent,              \* the calls of publish_message made for the last request:
                       \* message, return value and the dict as it was at the call
    clock,             \* the wall clock, in minutes
    req,               \* the request handled last, as far as the service read it
    resp,              \* the response to it
    created,           \* history: ids returned by the successful creates, in order
    deleted,           \* history: ids removed by the successful deletes, in order
    fresh,             \* history: record returned by create, per id not updated or deleted since
    inflight           \* per task of the event loop: the request it carries and where it stands

vars == <<todos_db, todo_id_counter, producer, sent, clock, req, resp,
          created, deleted, fresh, inflight>>

store == <<todos_db, todo_id_counter, producer>>
history == <<created, deleted, fresh>>

(***************************************************************************)
(* Bounds of the model.                                                    *)
(***************************************************************************)
MaxCreates == 2        \* creates explored per behaviour
MaxClock == 1          \* last minute explored by Spec
MaxTokenClock == 31    \* last minute explored by SpecToken
MaxTasks == 2          \* requests in flight at once in SpecConc

(***************************************************************************)
(* Program constants.                                                      *)
(***************************************************************************)
ACCESS_TOKEN_EXPIRE_MINUTES == 30
LOGIN_EXPIRE_MINUTES == 30
TITLE_MIN_LENGTH == 1
TITLE_MAX_LENGTH == 200
DESCRIPTION_MAX_LENGTH == 1000

DEMO_USERS == [admin |-> "admin123", user |-> "user123", demo |-> "demo123"]

HTTP_401_UNAUTHORIZED == 401

Null == "null"         \* Python None where a string is expected
NoSub == "<no sub>"    \* a payload without the sub claim
NoExp == -1            \* a payload without the exp claim
SECRET_KEY == "HS256/SECRET_KEY"   \* a signature made with settings.SECRET_KEY

(***************************************************************************)
(* The dict todos_db: entries [key, value] in insertion order.             *)
(***************************************************************************)
DictHas(d, k) == \E i \in 1..Len(d) : d[i].key = k

DictGet(d, k) == d[CHOOSE i \in 1..Len(d) : d[i].key = k].value

DictSet(d, k, v) ==
    IF DictHas(d, k)
    THEN [i \in 1..Len(d) |-> IF d[i].key = k THEN [key |-> k, value |-> v] ELSE d[i]]
    ELSE Append(d, [key |-> k, value |-> v])

\* mutant: the entry is read but stays in the dict
DictPopKeeps(d, k) == d

DictPop(d, k) == SelectSeq(d, LAMBDA e : e.key # k)

DictValues(d) == [i \in 1..Len(d) |-> d[i].value]

DictKeys(d) == {d[i].key : i \in 1..Len(d)}

(***************************************************************************)
(* Token service.                                                          *)
(***************************************************************************)
\* jose.jwt.encode: the claims, signed with the key
jwt_encode(claims, key) == [sub |-> claims.sub, exp |-> claims.exp, sig |-> key]

\* jose.jwt.decode: JWTError on a bad signature, ExpiredSignatureError when
\* the exp claim is present and exp < now
jwt_decode(token, key, now) ==
    IF token.sig # key THEN [error |-> TRUE, sub |-> NoSub, exp |-> NoExp]
    ELSE IF token.exp # NoExp /\ token.exp < now
         THEN [error |-> TRUE, sub |-> NoSub, exp |-> NoExp]
         ELSE [error |-> FALSE, sub |-> token.sub, exp |-> token.exp]

\* expires_delta = 0 stands for None and for timedelta(0), both falsy
create_access_token(sub, expires_delta, now) ==
    LET expire == IF expires_delta # 0
                  THEN now + expires_delta
                  ELSE now + ACCESS_TOKEN_EXPIRE_MINUTES
    IN jwt_encode([sub |-> sub, exp |-> expire], SECRET_KEY)

\* mutant: a payload without exp is accepted
decode_token_any_exp(token, now) ==
    LET payload == jwt_decode(token, SECRET_KEY, now) IN
    IF payload.error THEN <<>>
    ELSE IF payload.sub = NoSub THEN <<>>
    ELSE <<[sub |-> payload.sub, exp |-> payload.exp]>>

\* <<>> is None, <<p>> is TokenPayload p
decode_token(token, now) ==
    LET payload == jwt_decode(token, SECRET_KEY, now) IN
    IF payload.error THEN <<>>
    ELSE IF payload.sub = NoSub THEN <<>>
    ELSE IF payload.exp = NoExp THEN <<>>
    ELSE <<[sub |-> payload.sub, exp |-> payload.exp]>>

(***************************************************************************)
(* Authentication gate.                                                    *)
(***************************************************************************)
HTTPException(status, detail, headers) ==
    [status |-> status, detail |-> detail, headers |-> headers, body |-> <<>>]

Response(status, body) ==
    [status |-> status, detail |-> "", headers |-> {}, body |-> body]

get_current_user(token, now) ==
    LET token_data == decode_token(token, now) IN
    IF token_data = <<>>
    THEN [ok |-> FALSE, user |-> NoSub,
          error |-> HTTPException(HTTP_401_UNAUTHORIZED, "Invalid or expired token",
                                  {<<"WWW-Authenticate", "Bearer">>})]
    ELSE IF token_data[1].sub = NoSub
    THEN [ok |-> FALSE, user |-> NoSub,
          error |-> HTTPException(HTTP_401_UNAUTHORIZED, "Could not validate credentials",
                                  {<<"WWW-Authenticate", "Bearer">>})]
    ELSE [ok |-> TRUE, user |-> token_data[1].sub, error |-> Response(200, <<>>)]

(***************************************************************************)
(* Todo model.                                                             *)
(***************************************************************************)
\* mutant: an omitted description defaults to the empty string
TodoCreateEmptyDescription(raw) ==
    [title |-> raw.title,
     description |-> IF "description" \in DOMAIN raw THEN raw.description ELSE "",
     completed |-> IF "completed" \in DOMAIN raw THEN raw.completed ELSE FALSE]

\* TodoBase: the defaults of the optional fields
TodoCreate(raw) ==
    [title |-> raw.title,
     description |-> IF "description" \in DOMAIN raw THEN raw.description ELSE Null,
     completed |-> IF "completed" \in DOMAIN raw THEN raw.completed ELSE FALSE]

\* TodoBase: the Field constraints
TodoValid(raw) ==
    /\ Len(raw.title) >= TITLE_MIN_LENGTH
    /\ Len(raw.title) <= TITLE_MAX_LENGTH
    /\ ("description" \in DOMAIN raw => Len(raw.description) <= DESCRIPTION_MAX_LENGTH)

\* mutant: completed is not passed on and takes its default
TodoNotCompleted(id, title, description, completed, created_at, updated_at) ==
    [id |-> id, title |-> title, description |-> description, completed |-> FALSE,
     created_at |-> created_at, updated_at |-> updated_at]

Todo(id, title, description, completed, created_at, updated_at) ==
    [id |-> id, title |-> title, description |-> description, completed |-> completed,
     created_at |-> created_at, updated_at |-> updated_at]

isoformat(t) == ToString(t)

(***************************************************************************)
(* Event publisher.                                                        *)
(***************************************************************************)
PublishOutcomes == {"ok", "producer_error", "serialize_error", "send_error"}

\* mutant: no try/except around the producer calls
publish_message_unguarded(prod, message, outcome) ==
    IF ~prod /\ outcome = "producer_error"
    THEN [result |-> FALSE, raised |-> TRUE, producer |-> FALSE]
    ELSE IF outcome \in {"serialize_error", "send_error"}
    THEN [result |-> FALSE, raised |-> TRUE, producer |-> TRUE]
    ELSE [result |-> TRUE, raised |-> FALSE, producer |-> TRUE]

\* publish_message: what it returns, whether it raises, and self.producer after it
publish_message(prod, message, outcome) ==
    IF ~prod /\ outcome = "producer_error"
    THEN [result |-> FALSE, raised |-> FALSE, producer |-> FALSE]
    ELSE IF outcome \in {"serialize_error", "send_error"}
    THEN [result |-> FALSE, raised |-> FALSE, producer |-> TRUE]
    ELSE [result |-> TRUE, raised |-> FALSE, producer |-> TRUE]

(***************************************************************************)
(* Handlers of app/api/routes.py.  Each operator is the handler body after *)
(* the gate: it yields the response and the values of the globals after it.*)
(***************************************************************************)
Outcome(response, db, counter, pub, messages) ==
    [resp |-> response, todos_db |-> db, todo_id_counter |-> counter,
     producer |-> pub, published |-> messages]

\* mutant: the password of a known user is not compared
login_any_password(username, password, now) ==
    IF username \notin DOMAIN DEMO_USERS
    THEN HTTPException(401, "Invalid username or password", {})
    ELSE Response(200, <<[access_token |-> create_access_token(username, LOGIN_EXPIRE_MINUTES, now),
                          token_type |-> "bearer"]>>)

login(username, password, now) ==
    IF username \notin DOMAIN DEMO_USERS
    THEN HTTPException(401, "Invalid username or password", {})
    ELSE IF password # DEMO_USERS[username]
    THEN HTTPException(401, "Invalid username or password", {})
    ELSE Response(200, <<[access_token |-> create_access_token(username, LOGIN_EXPIRE_MINUTES, now),
                          token_type |-> "bearer"]>>)

\* mutant: the id is taken from the size of the dict
new_todo_id_by_len(db, counter) == Len(db) + 1

\* new_id = todo_id_counter
new_todo_id(db, counter) == counter

\* mutant: the counter is left as it was
next_counter_stuck(counter) == counter

\* todo_id_counter += 1
next_counter(counter) == counter + 1

create_todo(db, counter, prod, todo, current_user, now, outcome) ==
    LET new_id == new_todo_id(db, counter)
        counter1 == next_counter(counter)
        new_todo == Todo(new_id, todo.title, todo.description, todo.completed, now, now)
        db1 == DictSet(db, new_id, new_todo)
        todo_message == [id |-> new_todo.id, title |-> new_todo.title,
                         description |-> new_todo.description,
                         completed |-> new_todo.completed,
                         created_at |-> isoformat(new_todo.created_at),
                         created_by |-> current_user, event |-> "todo_created"]
        pub == publish_message(prod, todo_message, outcome)
        logged == <<[message |-> todo_message, result |-> pub.result, seen |-> db1]>>
    IN IF pub.raised
       THEN Outcome(HTTPException(500, "Error creating todo", {}), db1, counter1,
                    pub.producer, logged)
       ELSE Outcome(Response(201, <<new_todo>>), db1, counter1, pub.producer, logged)

get_todos(db, counter, prod) ==
    Outcome(Response(200, DictValues(db)), db, counter, prod, <<>>)

NotFound(todo_id) == HTTPException(404, "Todo with ID " \o ToString(todo_id) \o " not found", {})

get_todo(db, counter, prod, todo_id) ==
    IF ~DictHas(db, todo_id)
    THEN Outcome(NotFound(todo_id), db, counter, prod, <<>>)
    ELSE Outcome(Response(200, <<DictGet(db, todo_id)>>), db, counter, prod, <<>>)

update_todo(db, counter, prod, todo_id, todo_update, current_user, now, outcome) ==
    IF ~DictHas(db, todo_id)
    THEN Outcome(NotFound(todo_id), db, counter, prod, <<>>)
    ELSE LET existing_todo == [DictGet(db, todo_id) EXCEPT
                                   !.title = todo_update.title,
                                   !.description = todo_update.description,
                                   !.completed = todo_update.completed,
                                   !.updated_at = now]
             db1 == DictSet(db, todo_id, existing_todo)
             todo_message == [id |-> existing_todo.id, title |-> existing_todo.title,
                              description |-> existing_todo.description,
                              completed |-> existing_todo.completed,
                              updated_at |-> isoformat(existing_todo.updated_at),
                              updated_by |-> current_user, event |-> "todo_updated"]
             pub == publish_message(prod, todo_message, outcome)
             logged == <<[message |-> todo_message, result |-> pub.result, seen |-> db1]>>
         IN IF pub.raised
            THEN Outcome(HTTPException(500, "Error updating todo", {}), db1, counter,
                         pub.producer, logged)
            ELSE Outcome(Response(200, <<existing_todo>>), db1, counter, pub.producer, logged)

\* mutant: pop with a default instead of the membership test
delete_todo_unchecked(db, counter, prod, todo_id, current_user, outcome) ==
    LET db1 == DictPop(db, todo_id)
        todo_message == [id |-> todo_id, deleted_by |-> current_user,
                         event |-> "todo_deleted"]
        pub == publish_message(prod, todo_message, outcome)
        logged == <<[message |-> todo_message, result |-> pub.result, seen |-> db1]>>
    IN Outcome(Response(204, <<>>), db1, counter, pub.producer, logged)

\* mutant: the event is published before the record is removed
delete_todo_publish_first(db, counter, prod, todo_id, current_user, outcome) ==
    IF ~DictHas(db, todo_id)
    THEN Outcome(NotFound(todo_id), db, counter, prod, <<>>)
    ELSE LET todo_message == [id |-> DictGet(db, todo_id).id, deleted_by |-> current_user,
                              event |-> "todo_deleted"]
             pub == publish_message(prod, todo_message, outcome)
             logged == <<[message |-> todo_message, result |-> pub.result, seen |-> db]>>
             db1 == DictPop(db, todo_id)
         IN Outcome(Response(204, <<>>), db1, counter, pub.producer, logged)

delete_todo(db, counter, prod, todo_id, current_user, outcome) ==
    IF ~DictHas(db, todo_id)
    THEN Outcome(NotFound(todo_id), db, counter, prod, <<>>)
    ELSE LET deleted_todo == DictGet(db, todo_id)
             db1 == DictPop(db, todo_id)
             todo_message == [id |-> deleted_todo.id, deleted_by |-> current_user,
                              event |-> "todo_deleted"]
             pub == publish_message(prod, todo_message, outcome)
             logged == <<[message |-> todo_message, result |-> pub.result, seen |-> db1]>>
         IN IF pub.raised
            THEN Outcome(HTTPException(500, "Error deleting todo", {}), db1, counter,
                         pub.producer, logged)
            ELSE Outcome(Response(204, <<>>), db1, counter, pub.producer, logged)

\* app/main.py
health_check == Response(200, <<[status |-> "healthy", version |-> "2.0.0",
                                 app |-> "Todo Backend API with Auth"]>>)

root(index_exists) ==
    IF index_exists THEN Response(200, <<[file |-> "static/index.html"]>>)
    ELSE Response(200, <<[status |-> "Todo backend running"]>>)

(***************************************************************************)
(* Requests the clients send.                                              *)
(***************************************************************************)
FarExp == 1000         \* an exp claim beyond every minute explored

\* bearer tokens signed before the service started or elsewhere: one still
\* valid, one that expires at minute 0, one with a foreign signature, one
\* without sub, one without exp
PresentedTokens ==
    { [sub |-> "admin", exp |-> FarExp, sig |-> SECRET_KEY],
      [sub |-> "user", exp |-> 0, sig |-> SECRET_KEY],
      [sub |-> "admin", exp |-> FarExp, sig |-> "HS256/other key"],
      [sub |-> NoSub, exp |-> FarExp, sig |-> SECRET_KEY],
      [sub |-> "user", exp |-> NoExp, sig |-> SECRET_KEY] }

\* the token of the login response the client has just received
LoginToken ==
    IF req.op = "login" /\ resp.status = 200
    THEN {resp.body[1].access_token}
    ELSE {}

\* Spec: the presented tokens; SpecToken: those and the login token
StoreTokens == PresentedTokens
SessionTokens == PresentedTokens \cup LoginToken

RawBodies ==
    { [title |-> "Buy milk"],
      [title |-> "Buy oat milk", description |-> "2 l", completed |-> TRUE],
      [title |-> ""] }

TodoIds == 1..(MaxCreates + 1)

Usernames == DOMAIN DEMO_USERS \cup {"ghost"}
Passwords == {"admin123", "user123", "demo123", "wrong"}

Request(op, token, todo_id, body) ==
    [op |-> op, token |-> token, todo_id |-> todo_id, body |-> body,
     username |-> "", password |-> ""]

NoRequest == Request("none", <<>>, 0, <<>>)

\* the schema layer rejects the body before the handler runs
Unprocessable == HTTPException(422, "validation error", {})

Tasks == 1..MaxTasks

\* a task that carries no request
Idle == [pc |-> "idle", request |-> NoRequest, new_id |-> 0]

Init ==
    /\ todos_db = <<>>
    /\ todo_id_counter = 1
    /\ producer = FALSE
    /\ sent = <<>>
    /\ clock = 0
    /\ req = NoRequest
    /\ resp = Response(0, <<>>)
    /\ created = <<>>
    /\ deleted = <<>>
    /\ fresh = <<>>
    /\ inflight = [t \in Tasks |-> Idle]

Apply(out) ==
    /\ resp' = out.resp
    /\ todos_db' = out.todos_db
    /\ todo_id_counter' = out.todo_id_counter
    /\ producer' = out.producer
    /\ sent' = out.published

Reject(response) ==
    /\ resp' = response
    /\ sent' = <<>>
    /\ UNCHANGED <<store, history>>

Login ==
    \E username \in Usernames, password \in Passwords :
        /\ req' = [Request("login", <<>>, 0, <<>>) EXCEPT
                       !.username = username, !.password = password]
        /\ Reject(login(username, password, clock))
        /\ UNCHANGED <<clock, inflight>>

Health ==
    /\ req' = Request("health", <<>>, 0, <<>>)
    /\ Reject(health_check)
    /\ UNCHANGED <<clock, inflight>>

Root ==
    \E index_exists \in BOOLEAN :
        /\ req' = Request("root", <<>>, 0, <<>>)
        /\ Reject(root(index_exists))
        /\ UNCHANGED <<clock, inflight>>

Create(tokens) ==
    /\ Len(created) < MaxCreates
    /\ \E token \in tokens :
        LET auth == get_current_user(token, clock) IN
        IF ~auth.ok
        THEN /\ req' = Request("create", <<token>>, 0, <<>>)
             /\ Reject(auth.error)
        ELSE \E raw \in RawBodies, outcome \in PublishOutcomes :
             /\ req' = Request("create", <<token>>, 0, <<raw>>)
             /\ IF ~TodoValid(raw) THEN Reject(Unprocessable)
                ELSE LET out == create_todo(todos_db, todo_id_counter, producer,
                                            TodoCreate(raw), auth.user, clock, outcome)
                         ok == out.resp.status = 201
                     IN /\ Apply(out)
                        /\ created' = IF ok THEN Append(created, out.resp.body[1].id)
                                      ELSE created
                        /\ fresh' = IF ok
                                    THEN DictSet(fresh, out.resp.body[1].id, out.resp.body[1])
                                    ELSE fresh
                        /\ UNCHANGED deleted
    /\ UNCHANGED <<clock, inflight>>

GetTodos(tokens) ==
    /\ \E token \in tokens :
        LET auth == get_current_user(token, clock) IN
        /\ req' = Request("list", <<token>>, 0, <<>>)
        /\ IF ~auth.ok THEN Reject(auth.error)
           ELSE /\ Apply(get_todos(todos_db, todo_id_counter, producer))
                /\ UNCHANGED history
    /\ UNCHANGED <<clock, inflight>>

GetTodo(tokens) ==
    /\ \E token \in tokens :
        LET auth == get_current_user(token, clock) IN
        IF ~auth.ok
        THEN /\ req' = Request("get", <<token>>, 0, <<>>)
             /\ Reject(auth.error)
        ELSE \E todo_id \in TodoIds :
             /\ req' = Request("get", <<token>>, todo_id, <<>>)
             /\ Apply(get_todo(todos_db, todo_id_counter, producer, todo_id))
             /\ UNCHANGED history
    /\ UNCHANGED <<clock, inflight>>

Update(tokens) ==
    /\ \E token \in tokens :
        LET auth == get_current_user(token, clock) IN
        IF ~auth.ok
        THEN /\ req' = Request("update", <<token>>, 0, <<>>)
             /\ Reject(auth.error)
        ELSE \E todo_id \in TodoIds, raw \in RawBodies, outcome \in PublishOutcomes :
             /\ req' = Request("update", <<token>>, todo_id, <<raw>>)
             /\ IF ~TodoValid(raw) THEN Reject(Unprocessable)
                ELSE LET out == update_todo(todos_db, todo_id_counter, producer, todo_id,
                                            TodoCreate(raw), auth.user, clock, outcome)
                     IN /\ Apply(out)
                        /\ fresh' = IF out.resp.status = 200 THEN DictPop(fresh, todo_id)
                                    ELSE fresh
                        /\ UNCHANGED <<created, deleted>>
    /\ UNCHANGED <<clock, inflight>>

Delete(tokens) ==
    /\ \E token \in tokens :
        LET auth == get_current_user(token, clock) IN
        IF ~auth.ok
        THEN /\ req' = Request("delete", <<token>>, 0, <<>>)
             /\ Reject(auth.error)
        ELSE \E todo_id \in TodoIds, outcome \in PublishOutcomes :
             LET out == delete_todo(todos_db, todo_id_counter, producer, todo_id,
                                    auth.user, outcome)
                 ok == out.resp.status = 204
             IN /\ req' = Request("delete", <<token>>, todo_id, <<>>)
                /\ Apply(out)
                /\ deleted' = IF ok THEN Append(deleted, todo_id) ELSE deleted
                /\ fresh' = IF ok THEN DictPop(fresh, todo_id) ELSE fresh
                /\ UNCHANGED created
    /\ UNCHANGED <<clock, inflight>>

\* time passes between two requests
Tick ==
    /\ clock < MaxClock
    /\ clock' = clock + 1
    /\ UNCHANGED <<store, history, sent, req, resp, inflight>>

TickToken ==
    /\ clock < MaxTokenClock
    /\ clock' = clock + 1
    /\ UNCHANGED <<store, history, sent, req, resp, inflight>>

Next ==
    \/ Login
    \/ Health
    \/ Root
    \/ Create(StoreTokens)
    \/ GetTodos(StoreTokens)
    \/ GetTodo(StoreTokens)
    \/ Update(StoreTokens)
    \/ Delete(StoreTokens)
    \/ Tick

Spec == Init /\ [][Next]_vars

\* the token service over the whole life of a login token
NextToken ==
    \/ Login
    \/ GetTodos(SessionTokens)
    \/ TickToken

SpecToken == Init /\ [][NextToken]_vars

(***************************************************************************)
(* Concurrent requests.  Every handler is a coroutine on the one event     *)
(* loop of the process: a task runs from one suspension point to the next  *)
(* without another task running in between.  A request is in flight from   *)
(* its arrival, while its body is awaited; the gate and the handler then   *)
(* run up to the handler's next suspension point.                          *)
(***************************************************************************)
\* mutant: the loop may switch tasks once create_todo has read the counter
create_todo_yields_after_read(statement) == statement = "new_id = todo_id_counter"

\* whether create_todo gives up the loop after a statement: its body has no await
create_todo_yields(statement) == FALSE

\* create_todo from todo_id_counter += 1 on, with the new_id it read before
create_todo_resume(db, counter, prod, new_id, todo, current_user, now, outcome) ==
    LET counter1 == next_counter(counter)
        new_todo == Todo(new_id, todo.title, todo.description, todo.completed, now, now)
        db1 == DictSet(db, new_id, new_todo)
        todo_message == [id |-> new_todo.id, title |-> new_todo.title,
                         description |-> new_todo.description,
                         completed |-> new_todo.completed,
                         created_at |-> isoformat(new_todo.created_at),
                         created_by |-> current_user, event |-> "todo_created"]
        pub == publish_message(prod, todo_message, outcome)
        logged == <<[message |-> todo_message, result |-> pub.result, seen |-> db1]>>
    IN IF pub.raised
       THEN Outcome(HTTPException(500, "Error creating todo", {}), db1, counter1,
                    pub.producer, logged)
       ELSE Outcome(Response(201, <<new_todo>>), db1, counter1, pub.producer, logged)

\* a token that verifies and one with a foreign signature
ConcTokens ==
    { [sub |-> "admin", exp |-> FarExp, sig |-> SECRET_KEY],
      [sub |-> "admin", exp |-> FarExp, sig |-> "HS256/other key"] }

ValidBodies == {raw \in RawBodies : TodoValid(raw)}

ConcRequests ==
    {Request("create", <<token>>, 0, <<raw>>) : token \in ConcTokens, raw \in ValidBodies}
    \cup {Request("update", <<token>>, todo_id, <<raw>>) :
              token \in ConcTokens, todo_id \in TodoIds, raw \in ValidBodies}
    \cup {Request("delete", <<token>>, todo_id, <<>>) :
              token \in ConcTokens, todo_id \in TodoIds}

CreatesInFlight == Cardinality({t \in Tasks : inflight[t].request.op = "create"})

Finish(t) == inflight' = [inflight EXCEPT ![t] = Idle]

\* a request reaches the server and gets a task
Arrive(t) ==
    /\ inflight[t].pc = "idle"
    /\ \E request \in ConcRequests :
        /\ request.op = "create" => Len(created) + CreatesInFlight < MaxCreates
        /\ inflight' = [inflight EXCEPT ![t] = [pc |-> "received", request |-> request,
                                                new_id |-> 0]]
    /\ UNCHANGED <<store, history, sent, clock, req, resp>>

\* the loop runs task t up to its next suspension point or to its response
Handle(t) ==
    LET r == inflight[t].request
        auth == get_current_user(r.token[1], clock)
    IN
    /\ inflight[t].pc \in {"received", "after_new_id"}
    /\ IF ~auth.ok
       THEN /\ req' = Request(r.op, r.token, 0, <<>>)
            /\ Reject(auth.error)
            /\ Finish(t)
       ELSE IF r.op = "create" /\ inflight[t].pc = "received"
               /\ create_todo_yields("new_id = todo_id_counter")
       THEN /\ inflight' = [inflight EXCEPT
                                ![t].pc = "after_new_id",
                                ![t].new_id = new_todo_id(todos_db, todo_id_counter)]
            /\ UNCHANGED <<store, history, sent, req, resp>>
       ELSE IF r.op = "create"
       THEN \E outcome \in PublishOutcomes :
            LET todo == TodoCreate(r.body[1])
                out == IF inflight[t].pc = "received"
                       THEN create_todo(todos_db, todo_id_counter, producer, todo,
                                        auth.user, clock, outcome)
                       ELSE create_todo_resume(todos_db, todo_id_counter, producer,
                                               inflight[t].new_id, todo, auth.user,
                                               clock, outcome)
                ok == out.resp.status = 201
            IN /\ req' = r
               /\ Apply(out)
               /\ created' = IF ok THEN Append(created, out.resp.body[1].id) ELSE created
               /\ fresh' = IF ok
                           THEN DictSet(fresh, out.resp.body[1].id, out.resp.body[1])
                           ELSE fresh
               /\ UNCHANGED deleted
               /\ Finish(t)
       ELSE IF r.op = "update"
       THEN \E outcome \in PublishOutcomes :
            LET out == update_todo(todos_db, todo_id_counter, producer, r.todo_id,
                                   TodoCreate(r.body[1]), auth.user, clock, outcome)
            IN /\ req' = r
               /\ Apply(out)
               /\ fresh' = IF out.resp.status = 200 THEN DictPop(fresh, r.todo_id)
                           ELSE fresh
               /\ UNCHANGED <<created, deleted>>
               /\ Finish(t)
       ELSE \E outcome \in PublishOutcomes :
            LET out == delete_todo(todos_db, todo_id_counter, producer, r.todo_id,
                                   auth.user, outcome)
                ok == out.resp.status = 204
            IN /\ req' = r
               /\ Apply(out)
               /\ deleted' = IF ok THEN Append(deleted, r.todo_id) ELSE deleted
               /\ fresh' = IF ok THEN DictPop(fresh, r.todo_id) ELSE fresh
               /\ UNCHANGED created
               /\ Finish(t)
    /\ UNCHANGED clock

NextConc ==
    \/ \E t \in Tasks : Arrive(t)
    \/ \E t \in Tasks : Handle(t)

SpecConc == Init /\ [][NextConc]_vars

(***************************************************************************)
(* Properties.  A step that leaves the clock alone is the handling of the  *)
(* request req', answered by resp'.                                        *)
(***************************************************************************)
Handled(ops) == clock' = clock /\ req'.op \in ops

TodoOps == {"create", "list", "get", "update", "delete"}

Range(f) == {f[i] : i \in 1..Len(f)}

\* a token Verify must refuse at minute now: foreign signature, exp in the
\* past, or a required claim missing
Unverifiable(token, now) ==
    \/ token.sig # SECRET_KEY
    \/ token.sub = NoSub
    \/ token.exp = NoExp
    \/ token.exp < now

Challenge == <<"WWW-Authenticate", "Bearer">>

\* C1: a todo request whose bearer token does not verify is answered 401 with
\* a WWW-Authenticate header, the handler reads none of its arguments, nothing
\* is published and the store and the counter stay as they were; login,
\* health and root are answered without a token.
C1_GateBeforeEveryTodoOperation ==
    [][ /\ (Handled(TodoOps) /\ Unverifiable(req'.token[1], clock))
           => /\ resp'.status = 401
              /\ Challenge \in resp'.headers
              /\ resp'.body = <<>>
              /\ req'.todo_id = 0 /\ req'.body = <<>>
              /\ sent' = <<>>
              /\ UNCHANGED <<todos_db, todo_id_counter, producer>>
        /\ Handled({"health", "root"})
           => req'.token = <<>> /\ resp'.status = 200
        /\ Handled({"login"})
           => /\ req'.token = <<>>
              /\ Challenge \notin resp'.headers
              /\ (/\ req'.username \in DOMAIN DEMO_USERS
                  /\ req'.password = DEMO_USERS[req'.username]) => resp'.status = 200
      ]_vars

\* C1 witness: a delete with an expired, well-signed token was refused while
\* the store held a record
C1_Witness ==
    /\ req.op = "delete" /\ resp.status = 401
    /\ req.token[1].sig = SECRET_KEY /\ req.token[1].exp = 0 /\ clock > 0
    /\ Len(todos_db) > 0

\* C2: login with a pair of the credential table answers 200 with a token
\* that Verify maps to that username; any other pair answers 401 with the
\* one message text and no token.
C2_LoginIssuesTokenOnlyForTablePairs ==
    [][ Handled({"login"}) =>
          IF /\ req'.username \in DOMAIN DEMO_USERS
             /\ req'.password = DEMO_USERS[req'.username]
          THEN /\ resp'.status = 200
               /\ Len(resp'.body) = 1
               /\ resp'.body[1].token_type = "bearer"
               /\ Len(decode_token(resp'.body[1].access_token, clock)) = 1
               /\ decode_token(resp'.body[1].access_token, clock)[1].sub = req'.username
          ELSE /\ resp'.status = 401
               /\ resp'.detail = "Invalid username or password"
               /\ resp'.body = <<>>
      ]_vars

\* C2 witness: demo logged in with its table password, after minute 0, and
\* got a token whose subject is demo
C2_Witness ==
    /\ req.op = "login" /\ req.username = "demo" /\ req.password = "demo123"
    /\ resp.status = 200
    /\ resp.body[1].access_token.sub = "demo"
    /\ clock > 0

\* C3: every key of the mapping is its record's id, and the counter is
\* greater than every id in the mapping.
C3_KeysAreIdsBelowCounter ==
    \A i \in 1..Len(todos_db) :
        /\ todos_db[i].key = todos_db[i].value.id
        /\ todo_id_counter > todos_db[i].value.id

\* C3 witness: after creates, a delete and a successful update
C3_Witness ==
    /\ Len(created) = 2 /\ Len(deleted) = 1 /\ Len(todos_db) = 1
    /\ req.op = "update" /\ resp.status = 200

\* the value a request body asks for in an optional field
Submitted(raw) ==
    [title |-> raw.title,
     description |-> IF "description" \in DOMAIN raw THEN raw.description ELSE "null",
     completed |-> IF "completed" \in DOMAIN raw THEN raw.completed ELSE FALSE]

\* C4: the k-th successful create returns id k, an id not in the mapping and
\* never deleted before; the record under a key keeps its id for as long as
\* the key stays in the mapping.
C4_IdsSequentialNeverReused ==
    [][ /\ (Handled({"create"}) /\ resp'.status = 201)
           => /\ resp'.body[1].id = Len(created) + 1
              /\ resp'.body[1].id \notin Range(created)
              /\ resp'.body[1].id \notin Range(deleted)
              /\ ~DictHas(todos_db, resp'.body[1].id)
              /\ created' = Append(created, Len(created) + 1)
        /\ \A k \in DictKeys(todos_db) \cap DictKeys(todos_db') :
              DictGet(todos_db', k).id = DictGet(todos_db, k).id
      ]_vars

\* C4 witness: the second create, after the delete of id 1, returned id 2
C4_Witness ==
    /\ req.op = "create" /\ resp.status = 201
    /\ resp.body[1].id = 2
    /\ deleted = <<1>>
    /\ DictKeys(todos_db) = {2}

\* C5: a successful delete removes the id; a get of an id deleted earlier is
\* answered 404; a delete of an id not in the mapping is answered 404 and
\* leaves the store as it was.
C5_DeleteThenNotFound ==
    [][ /\ (Handled({"delete"}) /\ resp'.status = 204)
           => /\ DictHas(todos_db, req'.todo_id)
              /\ ~DictHas(todos_db', req'.todo_id)
        /\ (Handled({"get"}) /\ resp'.status # 401 /\ req'.todo_id \in Range(deleted))
           => resp'.status = 404
        /\ (Handled({"delete"}) /\ resp'.status # 401 /\ ~DictHas(todos_db, req'.todo_id))
           => /\ resp'.status = 404
              /\ sent' = <<>>
              /\ UNCHANGED <<todos_db, todo_id_counter, producer>>
      ]_vars

\* C5 witness: a get of the deleted id 1 was answered 404 after a later create
C5_Witness ==
    /\ req.op = "get" /\ req.todo_id = 1 /\ resp.status = 404
    /\ deleted = <<1>>
    /\ created = <<1, 2>>

\* C6: list after N successful creates and M successful deletes returns N - M
\* records, whose ids are the created ids that were not deleted.
C6_ListIsCreatedMinusDeleted ==
    [][ (Handled({"list"}) /\ resp'.status = 200)
           => /\ Len(resp'.body) = Len(created) - Len(deleted)
              /\ {resp'.body[i].id : i \in 1..Len(resp'.body)}
                     = Range(created) \ Range(deleted)
              /\ Cardinality({resp'.body[i].id : i \in 1..Len(resp'.body)})
                     = Len(resp'.body)
      ]_vars

\* C6 witness: a list of one record after two creates and one delete
C6_Witness ==
    /\ req.op = "list" /\ resp.status = 200
    /\ Len(created) = 2 /\ Len(deleted) = 1
    /\ Len(resp.body) = 1

\* C7: a successful update keeps id and created_at, does not move updated_at
\* back, writes title, description and completed as submitted (null and
\* false when omitted), and leaves the other records, their order and the
\* counter as they were.
C7_UpdateFrame ==
    [][ (Handled({"update"}) /\ resp'.status = 200)
           => /\ DictHas(todos_db, req'.todo_id)
              /\ DictHas(todos_db', req'.todo_id)
              /\ LET old == DictGet(todos_db, req'.todo_id)
                     new == DictGet(todos_db', req'.todo_id)
                     want == Submitted(req'.body[1])
                 IN /\ new.id = old.id
                    /\ new.created_at = old.created_at
                    /\ new.updated_at >= old.updated_at
                    /\ new.updated_at = clock
                    /\ new.title = want.title
                    /\ new.description = want.description
                    /\ new.completed = want.completed
                    /\ resp'.body = <<new>>
              /\ Len(todos_db') = Len(todos_db)
              /\ \A i \in 1..Len(todos_db) :
                    /\ todos_db'[i].key = todos_db[i].key
                    /\ todos_db[i].key # req'.todo_id => todos_db'[i] = todos_db[i]
              /\ todo_id_counter' = todo_id_counter
      ]_vars

\* C7 witness: an update that omits description and completed, a minute
\* after the creation, with another record in the store
C7_Witness ==
    /\ req.op = "update" /\ resp.status = 200
    /\ "description" \notin DOMAIN req.body[1]
    /\ resp.body[1].description = "null"
    /\ resp.body[1].updated_at > resp.body[1].created_at
    /\ Len(todos_db) = 2

\* C8: create returns the stored record, with the submitted title,
\* description and completed and created_at = updated_at = the creation
\* minute; a get of an id not updated or deleted since returns that record.
C8_CreateGetRoundTrip ==
    [][ /\ (Handled({"create"}) /\ resp'.status = 201)
           => LET r == resp'.body[1]
                  want == Submitted(req'.body[1])
              IN /\ r.title = want.title
                 /\ r.description = want.description
                 /\ r.completed = want.completed
                 /\ r.created_at = clock /\ r.updated_at = clock
                 /\ DictHas(todos_db', r.id)
                 /\ DictGet(todos_db', r.id) = r
                 /\ DictHas(fresh', r.id) /\ DictGet(fresh', r.id) = r
        /\ (Handled({"get"}) /\ resp'.status # 401 /\ DictHas(fresh, req'.todo_id))
           => /\ resp'.status = 200
              /\ resp'.body = <<DictGet(fresh, req'.todo_id)>>
      ]_vars

\* C8 witness: a get, a minute after the create, of a record created
\* completed and not touched since
C8_Witness ==
    /\ req.op = "get" /\ resp.status = 200
    /\ DictHas(fresh, req.todo_id)
    /\ resp.body[1].completed
    /\ resp.body[1].created_at = resp.body[1].updated_at
    /\ clock > resp.body[1].created_at

\* C9: login issues a token with exp = now + 30 minutes; presented at the
\* minute of issuance it verifies; presented when the clock is at or past
\* exp it is refused.
C9_TokenInvalidFromExpiryOn ==
    [][ /\ (Handled({"login"}) /\ resp'.status = 200)
           => resp'.body[1].access_token.exp = clock + 30
        /\ (Handled({"list"}) /\ req'.token[1] \in LoginToken)
           => LET token == req'.token[1] IN
              /\ clock = token.exp - 30 => resp'.status = 200
              /\ clock > token.exp => resp'.status = 401
              /\ clock = token.exp => resp'.status = 401
      ]_vars

NormalStatus == [create |-> 201, update |-> 200, delete |-> 204]

\* C10: when publish_message fails it returns False and the request is
\* answered with its normal status; the record is created, updated or
\* removed as the request asked.
C10_PublishFailureAbsorbed ==
    [][ (Handled({"create", "update", "delete"}) /\ Len(sent') > 0)
           => /\ Len(sent') = 1
              /\ resp'.status = NormalStatus[req'.op]
              /\ sent'[1].result = FALSE
                 => /\ req'.op = "create"
                       => /\ DictHas(todos_db', resp'.body[1].id)
                          /\ DictGet(todos_db', resp'.body[1].id) = resp'.body[1]
                          /\ resp'.body[1].title = req'.body[1].title
                          /\ Len(todos_db') = Len(todos_db) + 1
                          /\ todo_id_counter' = todo_id_counter + 1
                    /\ req'.op = "update"
                       => /\ DictGet(todos_db', req'.todo_id) = resp'.body[1]
                          /\ resp'.body[1].title = req'.body[1].title
                          /\ resp'.body[1].updated_at = clock
                    /\ req'.op = "delete"
                       => /\ DictHas(todos_db, req'.todo_id)
                          /\ ~DictHas(todos_db', req'.todo_id)
      ]_vars

\* C10 witness: a create answered 201 although the producer could not be
\* constructed; the record is in the store
C10_Witness ==
    /\ req.op = "create" /\ resp.status = 201
    /\ Len(sent) = 1 /\ sent[1].result = FALSE
    /\ producer = FALSE
    /\ DictHas(todos_db, resp.body[1].id)

\* C11: every 401, from login or from the gate of a todo request, carries
\* the WWW-Authenticate header and the same message as any other 401.
C11_UniformAuthenticationFailure ==
    [][ (Handled(TodoOps \cup {"login"}) /\ resp'.status = 401)
           => /\ Challenge \in resp'.headers
              /\ resp.status = 401 => resp'.detail = resp.detail
      ]_vars

\* C12: a successful create, update or delete makes exactly one call of
\* publish_message, with a todo_created, todo_updated or todo_deleted event
\* that carries the id of the todo and the subject of the request's token,
\* and makes it when the dict already holds the mutation; the delete event
\* has no other field; a request answered 401, 404 or 422, and every get,
\* list, login, health and root, makes no call.
C12_OneEventPerMutation ==
    [][ /\ (Handled({"create"}) /\ resp'.status = 201)
           => /\ Len(sent') = 1
              /\ sent'[1].message.event = "todo_created"
              /\ sent'[1].message.id = resp'.body[1].id
              /\ sent'[1].message.created_by = req'.token[1].sub
              /\ sent'[1].message.title = resp'.body[1].title
              /\ sent'[1].message.description = resp'.body[1].description
              /\ sent'[1].message.completed = resp'.body[1].completed
              /\ sent'[1].seen = todos_db' /\ todos_db' # todos_db
        /\ (Handled({"update"}) /\ resp'.status = 200)
           => /\ Len(sent') = 1
              /\ sent'[1].message.event = "todo_updated"
              /\ sent'[1].message.id = req'.todo_id
              /\ sent'[1].message.updated_by = req'.token[1].sub
              /\ sent'[1].message.title = req'.body[1].title
              /\ sent'[1].seen = todos_db'
              /\ DictGet(sent'[1].seen, req'.todo_id) = resp'.body[1]
        /\ (Handled({"delete"}) /\ resp'.status = 204)
           => /\ Len(sent') = 1
              /\ sent'[1].message.event = "todo_deleted"
              /\ sent'[1].message.id = req'.todo_id
              /\ sent'[1].message.deleted_by = req'.token[1].sub
              /\ DOMAIN sent'[1].message = {"id", "deleted_by", "event"}
              /\ sent'[1].seen = todos_db' /\ ~DictHas(sent'[1].seen, req'.todo_id)
        /\ (/\ clock' = clock
            /\ \/ resp'.status \in {401, 404, 422}
               \/ req'.op \in {"get", "list", "login", "health", "root"})
           => sent' = <<>>
      ]_vars

\* C12 witness: user deleted a record admin had created; the one event is
\* todo_deleted with that id and deleter, although the send failed
C12_Witness ==
    /\ req.op = "delete" /\ resp.status = 204
    /\ Len(sent) = 1
    /\ sent[1].message = [id |-> 1, deleted_by |-> "user", event |-> "todo_deleted"]
    /\ sent[1].result = FALSE
    /\ created = <<1, 2>>

\* C13: whatever the interleaving of the requests in flight, the creates
\* answered 201 have pairwise distinct ids, no create has read a counter
\* value that another create has read or was given, and the mapping holds
\* exactly the created ids that no delete removed.
C13_ConcurrentCreatesDistinct ==
    /\ \A i, j \in 1..Len(created) : i # j => created[i] # created[j]
    /\ \A t \in Tasks : inflight[t].pc = "after_new_id"
          => /\ inflight[t].new_id \notin Range(created)
             /\ \A u \in Tasks \ {t} : inflight[u].pc = "after_new_id"
                   => inflight[u].new_id # inflight[t].new_id
    /\ DictKeys(todos_db) = Range(created) \ Range(deleted)
    /\ Len(todos_db) = Len(created) - Len(deleted)
    /\ \A k \in DictKeys(todos_db) : DictGet(todos_db, k).id = k

\* C13 witness: the second create was answered while another task still
\* carries an update that has not run
C13_Witness ==
    /\ created = <<1, 2>>
    /\ Len(todos_db) = 2
    /\ req.op = "create" /\ resp.status = 201 /\ resp.body[1].id = 2
    /\ \E t \in Tasks : inflight[t].pc = "received" /\ inflight[t].request.op = "update"

====
